---- MODULE Spec2Model ----
(***************************************************************************)
(* The segment collection of the wheel spinner (WheelSpinner component,    *)
(* src/app/page.tsx): the items state, the handlers that change it         *)
(* (addItem, removeItem, updateProbability, toggleItemVisibility) and the  *)
(* helpers they call (normalizeProbabilities, calculateEqualShare,         *)
(* getVisibleItems).  Ids are the strings the code stores; labels are      *)
(* sequences of characters so that String.prototype.trim is computed.      *)
(***************************************************************************)
EXTENDS Integers, Sequences, FiniteSets, TLC

VARIABLES
    items,          \* useState<WheelItem[]>: the collection, in list order
    newItemLabel,   \* useState(""): the text of the "Add new item" field
    now,            \* the reading Date.now() returns
    calls,          \* how many handler calls have changed or kept the collection
    editingItemId,  \* useState<string | null>(null): the item being renamed
    editingLabel,   \* useState(""): the text of the rename field
    spinning,       \* useState(false)
    rotation,       \* useState(0): degrees, a double
    winner,         \* useState<WheelItem | null>(null)
    frameRequests,  \* requestAnimationFrame(animate): the closures waiting
    spins,          \* how many times spinWheel has started an animation
    reentries,      \* how many times spinWheel returned at if (spinning)
    resolved        \* how many times determineWinner has been called

itemVars == <<items, newItemLabel, now, calls>>
editVars == <<editingItemId, editingLabel>>
spinVars == <<spinning, rotation, winner, frameRequests, spins, reentries,
              resolved>>
vars == <<items, newItemLabel, now, calls, editingItemId, editingLabel,
          spinning, rotation, winner, frameRequests, spins, reentries,
          resolved>>

----------------------------------------------------------------------------
(* Bounds of the model *)

\* addItem is not offered once the collection holds MaxItems items
MaxItems == 7
\* the first clock reading (the initial ids are "1".."5")
FirstNow == 6
\* the clock stops advancing at FirstNow + MaxTicks
MaxTicks == 1
\* the collection handlers are called at most MaxCalls times in a run
MaxCalls == 2
\* the handlers are called at most DupCalls times in a run of SpecDup
DupCalls == 7
\* the handlers are called at most TieCalls times in a run of SpecTie
TieCalls == 5
\* size of the collection built by the long run of SpecMany
ManyItems == 102
\* spinWheel starts at most MaxSpins animations in a run of SpecSpin
MaxSpins == 1
\* spinWheel is called at most MaxReentries times while the wheel spins
MaxReentries == 1
\* the collection handlers are called at most SpinCalls times in a run of
\* SpecSpin
SpinCalls == 2
\* addItem is called at most EditCalls times in a run of SpecEdit
EditCalls == 2
\* the collection handlers are called at most GapCalls times in a run of
\* SpecGap
GapCalls == 1
\* spinWheel starts at most GapSpins animations in a run of SpecGap
GapSpins == 2

----------------------------------------------------------------------------
(* Values *)

\* an argument that was not passed
undefined == "undefined"

\* null: no item (a record, so that it compares with the items)
null == [null |-> TRUE]

\* null where the code holds a string (string | null)
nullString == "null"

\* if (fixedId), if (!editingItemId): undefined, null and the empty string
\* are falsy
Truthy(x) == x \notin {undefined, nullString, ""}

\* Whitespace characters of the model's labels
WhiteSpace == {" "}

\* COLORS.length
NumColors == 10

WheelItem(id, label, probability, color, hidden) ==
    [id |-> id, label |-> label, probability |-> probability,
     color |-> color, hidden |-> hidden]

Max(a, b) == IF a >= b THEN a ELSE b
Min(a, b) == IF a <= b THEN a ELSE b

RECURSIVE GCD(_, _)
GCD(a, b) == IF b = 0 THEN a ELSE GCD(b, a % b)

\* String.prototype.trim on a sequence of characters
RECURSIVE TrimStart(_)
TrimStart(s) ==
    IF s # <<>> /\ Head(s) \in WhiteSpace THEN TrimStart(Tail(s)) ELSE s

RECURSIVE TrimEnd(_)
TrimEnd(s) ==
    IF s # <<>> /\ s[Len(s)] \in WhiteSpace
    THEN TrimEnd(SubSeq(s, 1, Len(s) - 1)) ELSE s

Trim(s) == TrimEnd(TrimStart(s))

\* reduce((sum, item) => sum + item.probability, 0)
RECURSIVE SumProbability(_)
SumProbability(s) ==
    IF s = <<>> THEN 0 ELSE Head(s).probability + SumProbability(Tail(s))

\* Array.prototype.find by id: the first item with that id (0 when none)
FindIndex(s, id) ==
    IF \E i \in 1..Len(s) : s[i].id = id
    THEN CHOOSE i \in 1..Len(s) :
            s[i].id = id /\ \A j \in 1..(i - 1) : s[j].id # id
    ELSE 0

----------------------------------------------------------------------------
(* Math.round(m * (p / q)) on IEEE-754 doubles, for integers 1 <= m <= 100 *)
(* and 1 <= p <= min(q, 100).  The exact quotient m*p/q is rounded to the  *)
(* nearest integer, halves upwards, except that for the triples <<m, a, b>>*)
(* below (a/b is p/q in lowest terms) the exact value ends in .5 and the   *)
(* double product lies just under it, so Math.round rounds it down.        *)

FloatTieDown == {
    <<11, 15, 22>>, <<13, 15, 26>>, <<22, 15, 44>>, <<23, 13, 46>>, <<25, 29, 50>>,
    <<26, 15, 52>>, <<29, 31, 58>>, <<35, 47, 70>>, <<37, 39, 74>>, <<37, 43, 74>>,
    <<38, 53, 76>>, <<39, 15, 26>>, <<39, 31, 78>>, <<41, 47, 82>>, <<41, 57, 82>>,
    <<42, 17, 28>>, <<42, 59, 84>>, <<43, 23, 86>>, <<43, 31, 86>>, <<43, 57, 86>>,
    <<44, 15, 88>>, <<44, 49, 88>>, <<45, 7, 10>>, <<45, 13, 90>>, <<45, 49, 90>>,
    <<46, 13, 92>>, <<46, 61, 92>>, <<47, 3, 94>>, <<47, 31, 94>>, <<47, 51, 94>>,
    <<49, 1, 98>>, <<49, 27, 98>>, <<49, 55, 98>>, <<50, 29, 100>>, <<50, 57, 100>>,
    <<51, 31, 102>>, <<52, 15, 104>>, <<52, 63, 104>>, <<54, 61, 108>>, <<55, 3, 22>>,
    <<55, 7, 110>>, <<55, 29, 110>>, <<55, 31, 110>>, <<56, 61, 112>>, <<58, 31, 116>>,
    <<58, 59, 116>>, <<59, 61, 118>>, <<67, 29, 134>>, <<69, 11, 138>>, <<69, 21, 46>>,
    <<70, 47, 140>>, <<71, 7, 142>>, <<71, 31, 142>>, <<74, 39, 148>>, <<74, 43, 148>>,
    <<75, 11, 30>>, <<75, 41, 50>>, <<75, 79, 150>>, <<75, 97, 150>>, <<76, 53, 152>>,
    <<76, 87, 152>>, <<77, 5, 154>>, <<77, 15, 22>>, <<77, 39, 154>>, <<78, 15, 52>>,
    <<78, 31, 156>>, <<78, 85, 156>>, <<78, 95, 156>>, <<79, 21, 158>>, <<79, 47, 158>>,
    <<82, 47, 164>>, <<82, 57, 164>>, <<82, 93, 164>>, <<83, 7, 166>>, <<83, 53, 166>>,
    <<84, 17, 56>>, <<84, 41, 56>>, <<84, 59, 168>>, <<84, 97, 168>>, <<85, 7, 10>>,
    <<85, 49, 170>>, <<85, 57, 170>>, <<86, 23, 172>>, <<86, 31, 172>>, <<86, 57, 172>>,
    <<87, 17, 58>>, <<87, 31, 58>>, <<87, 59, 174>>, <<88, 15, 176>>, <<88, 49, 176>>,
    <<89, 47, 178>>, <<89, 51, 178>>, <<89, 55, 178>>, <<89, 59, 178>>, <<89, 63, 178>>,
    <<90, 7, 20>>, <<90, 13, 180>>, <<90, 23, 36>>, <<90, 49, 180>>, <<91, 15, 26>>,
    <<91, 29, 182>>, <<91, 61, 182>>, <<91, 99, 182>>, <<92, 13, 184>>, <<92, 61, 184>>,
    <<92, 99, 184>>, <<93, 13, 186>>, <<93, 17, 62>>, <<93, 21, 62>>, <<94, 3, 188>>,
    <<94, 31, 188>>, <<94, 51, 188>>, <<94, 99, 188>>, <<95, 7, 190>>, <<95, 53, 190>>,
    <<95, 63, 190>>, <<95, 99, 190>>, <<97, 7, 194>>, <<97, 25, 194>>, <<97, 31, 194>>,
    <<97, 53, 194>>, <<97, 59, 194>>, <<98, 1, 196>>, <<98, 17, 28>>, <<98, 27, 196>>,
    <<98, 55, 196>>, <<98, 99, 196>>, <<99, 3, 22>>, <<99, 37, 66>>, <<99, 59, 198>>,
    <<100, 23, 40>>, <<100, 29, 200>>, <<100, 57, 200>>
}

MathRoundScaled(m, p, q) ==
    LET g     == GCD(p, q)
        exact == (2 * m * p + q) \div (2 * q)
    IN  IF <<m, p \div g, q \div g>> \in FloatTieDown THEN exact - 1 ELSE exact

----------------------------------------------------------------------------
(* Helpers of the component *)

\* getVisibleItems: items.filter(item => !item.hidden)
NotHidden(item) == ~item.hidden
getVisibleItems(list) == SelectSeq(list, NotHidden)

\* calculateEqualShare: floor(100 / n) each, the last one takes the rest
calculateEqualShare(visibleItems) ==
    LET n          == Len(visibleItems)
        equalShare == IF n = 0 THEN 0 ELSE 100 \div n
    IN  [i \in 1..n |->
            [visibleItems[i] EXCEPT !.probability =
                IF i = n THEN 100 - equalShare * (n - 1) ELSE equalShare]]

\* updatedItems.map(item => item.hidden ? item
\*     : normalizedVisible.find(ni => ni.id === item.id) || item)
mergeVisible(updatedItems, normalizedVisible) ==
    [i \in 1..Len(updatedItems) |->
        LET item == updatedItems[i]
            k    == FindIndex(normalizedVisible, item.id)
        IN  IF item.hidden \/ k = 0 THEN item ELSE normalizedVisible[k]]

\* normalizeProbabilities(updatedItems, fixedId?)
normalizeProbabilities(updatedItems, fixedId) ==
    LET safeItems == [i \in 1..Len(updatedItems) |->
                        [updatedItems[i] EXCEPT !.probability =
                            Max(1, updatedItems[i].probability)]]
        total     == SumProbability(safeItems)
        k         == FindIndex(safeItems, fixedId)
        IsOther(item)   == item.id # fixedId
        remainingTotal  == 100 - safeItems[k].probability
        otherItemsTotal == SumProbability(SelectSeq(safeItems, IsOther))
    IN  IF total = 0 THEN safeItems
        ELSE IF Truthy(fixedId) THEN
            IF k = 0 THEN safeItems
            ELSE [i \in 1..Len(safeItems) |->
                    IF safeItems[i].id = fixedId THEN safeItems[i]
                    ELSE [safeItems[i] EXCEPT !.probability =
                            Max(1, IF otherItemsTotal = 0 THEN remainingTotal
                                   ELSE MathRoundScaled(remainingTotal,
                                            safeItems[i].probability,
                                            otherItemsTotal))]]
        ELSE [i \in 1..Len(safeItems) |->
                [safeItems[i] EXCEPT !.probability =
                    Max(1, MathRoundScaled(100, safeItems[i].probability, total))]]

----------------------------------------------------------------------------
(* Angles.  An angle is an IEEE-754 double; the doubles determineWinner    *)
(* meets lie next to the tenths of a degree (an arc is 3.6 degrees per     *)
(* unit of weight).  The double x is the pair <<g, r>> with                *)
(*     x = g / 10 + r / (10 * 2^52)      (g, r integers, r small),         *)
(* so that its distance r from the tenth g / 10 is kept exactly.           *)

RECURSIVE Pow2(_)
Pow2(n) == IF n = 0 THEN 1 ELSE 2 * Pow2(n - 1)

\* an integer number of degrees
Dbl(d) == <<10 * d, 0>>

DblNeg(x) == <<0 - x[1], 0 - x[2]>>

\* x >= y and x < y on doubles
DblGeq(x, y) == x[1] > y[1] \/ (x[1] = y[1] /\ x[2] >= y[2])
DblLess(x, y) == ~DblGeq(x, y)

\* the binary exponent of a value next to g / 10 >= 1: 2^e <= g / 10 < 2^(e+1)
RECURSIVE Exponent(_)
Exponent(g) == IF g < 20 THEN 0 ELSE 1 + Exponent(g \div 2)

\* round-to-nearest, ties to even, of the exact value <<g, r>> (g >= 10) to
\* a double: with s = 10 * 2^e the size of one unit in the last place, the
\* value is (q + R / s) units, where 5 * q + c = g * 2^(51 - e)
Fl(x) ==
    LET g   == x[1]
        e   == Exponent(g)
        s   == 10 * Pow2(e)
        c   == (g * Pow2((51 - e) % 4)) % 5
        R   == Pow2(e + 1) * c + x[2]
        k   == R \div s
        rho == R - s * k
        up  == IF 2 * rho > s \/ (2 * rho = s /\ (c + k) % 2 = 1) THEN 1 ELSE 0
    IN  IF x = <<0, 0>> THEN x ELSE <<g, s * (k + up) - Pow2(e + 1) * c>>

\* x + y on doubles (both >= 0)
DblAdd(x, y) == Fl(<<x[1] + y[1], x[2] + y[2]>>)

\* x % 360: the remainder of the truncated division, with the sign of x;
\* it is exact
Rem360(x) ==
    LET Pos(y) == LET k == IF y[1] % 3600 = 0 /\ y[2] < 0 /\ y[1] > 0
                           THEN y[1] \div 3600 - 1 ELSE y[1] \div 3600
                  IN  <<y[1] - 3600 * k, y[2]>>
    IN  IF DblGeq(x, <<0, 0>>) THEN Pos(x) ELSE DblNeg(Pos(DblNeg(x)))

\* (360 * item.probability) / 100: the double nearest to 3.6 * probability
sliceAngle(probability) == Fl(<<36 * probability, 0>>)

\* the test of the loop with the upper end of the slice included
inSlice_closedEnd(normalizedAngle, currentAngle, sliceEnd) ==
    /\ DblGeq(normalizedAngle, currentAngle)
    /\ DblGeq(sliceEnd, normalizedAngle)

\* normalizedAngle >= currentAngle &&
\* normalizedAngle < currentAngle + sliceAngle
inSlice(normalizedAngle, currentAngle, sliceEnd) ==
    /\ DblGeq(normalizedAngle, currentAngle)
    /\ DblLess(normalizedAngle, sliceEnd)

\* the for loop of determineWinner from the i-th item on
RECURSIVE winnerLoop(_, _, _, _)
winnerLoop(normalizedAngle, normalizedItems, i, currentAngle) ==
    IF i > Len(normalizedItems) THEN null
    ELSE LET item     == normalizedItems[i]
             sliceEnd == DblAdd(currentAngle, sliceAngle(item.probability))
         IN  IF inSlice(normalizedAngle, currentAngle, sliceEnd)
             THEN item
             ELSE winnerLoop(normalizedAngle, normalizedItems, i + 1, sliceEnd)

\* determineWinner(currentRotation, visibleItems)
determineWinner(currentRotation, visibleItems) ==
    LET normalizedAngle == Rem360(currentRotation)
        normalizedItems == normalizeProbabilities(visibleItems, undefined)
    IN  winnerLoop(normalizedAngle, normalizedItems, 1, <<0, 0>>)

----------------------------------------------------------------------------
(* The results of the handlers, as functions of the collection *)

\* addItem: the collection after adding newLabel at clock reading t
addItemResult(list, newLabel, t) ==
    IF Trim(newLabel) = <<>> THEN list
    ELSE LET newItem == WheelItem(ToString(t), newLabel, 10,
                                  Len(list) % NumColors, FALSE)
         IN  normalizeProbabilities(Append(list, newItem), undefined)

\* removeItem
removeItemResult(list, id) ==
    IF Len(list) <= 2 THEN list
    ELSE LET Keep(item)        == item.id # id
             updatedItems      == SelectSeq(list, Keep)
             visibleItems      == getVisibleItems(updatedItems)
             normalizedVisible == calculateEqualShare(visibleItems)
         IN  mergeVisible(updatedItems, normalizedVisible)

\* updateProbability with the upper limit of the slider (100) as the clamp
updateProbabilityResult_clampTo100(list, id, value) ==
    LET newValue == Max(1, Min(100, value))
    IN  normalizeProbabilities(
            [i \in 1..Len(list) |->
                IF list[i].id = id
                THEN [list[i] EXCEPT !.probability = newValue]
                ELSE list[i]],
            id)

\* updateProbability
updateProbabilityResult(list, id, value) ==
    LET newValue == Max(1, Min(99, value))
    IN  normalizeProbabilities(
            [i \in 1..Len(list) |->
                IF list[i].id = id
                THEN [list[i] EXCEPT !.probability = newValue]
                ELSE list[i]],
            id)

\* toggleItemVisibility
toggleItemVisibilityResult(list, id) ==
    LET updatedItems == [i \in 1..Len(list) |->
                            IF list[i].id = id
                            THEN [list[i] EXCEPT !.hidden = ~list[i].hidden]
                            ELSE list[i]]
        visibleItems      == getVisibleItems(updatedItems)
        normalizedVisible == calculateEqualShare(visibleItems)
    IN  mergeVisible(updatedItems, normalizedVisible)

\* saveItemLabel with the editing state (id, label)
saveItemLabelResult(list, id, label) ==
    IF ~Truthy(id) THEN list
    ELSE [i \in 1..Len(list) |->
            IF list[i].id = id THEN [list[i] EXCEPT !.label = label]
            ELSE list[i]]

----------------------------------------------------------------------------
(* The spin *)

\* const duration = 5000
duration == 5000

\* the guards of spinWheel without the test of spinning
spinWheelGuards_noSpinningTest(isSpinning, list) ==
    IF Len(getVisibleItems(list)) < 2 THEN "few" ELSE "start"

\* if (spinning) return; if (visibleItems.length < 2) return;
spinWheelGuards(isSpinning, list) ==
    IF isSpinning THEN "spinning"
    ELSE IF Len(getVisibleItems(list)) < 2 THEN "few" ELSE "start"

\* the winner kept when a spin starts
winnerAtStart_kept(previousWinner) == previousWinner

\* setWinner(null) of spinWheel
winnerAtStart(previousWinner) == null

\* the branch of animate that ends the spin, taken at every frame
spinComplete_everyFrame(elapsed) == TRUE

\* progress = Math.min(elapsed / duration, 1); !(progress < 1)
spinComplete(elapsed) == elapsed >= duration

\* spinAngle * easeOut(progress), easeOut(t) = 1 - (1 - t)^3: with
\* progress = n / d in lowest terms it is spinAngle * (d^3 - (d - n)^3) / d^3
\* (a whole number of degrees, and exact in doubles, when progress is 0, 1/2
\* or 1 and spinAngle is a multiple of 8)
easedAngle(spinAngle, elapsed) ==
    LET e == Max(0, Min(elapsed, duration))
        g == GCD(e, duration)
        n == e \div g
        d == duration \div g
    IN  (spinAngle * (d * d * d - (d - n) * (d - n) * (d - n))) \div (d * d * d)

\* animate with setSpinning(false) moved into if (winningItem)
animateResult_endsOnlyWithWinner(closure, t, st) ==
    LET elapsed         == t - closure.startTime
        currentRotation == DblAdd(closure.rotation,
                                  Dbl(easedAngle(closure.spinAngle, elapsed)))
        winningItem     == determineWinner(currentRotation,
                                           closure.visibleItems)
    IN  IF ~spinComplete(elapsed)
        THEN [st EXCEPT !.rotation = currentRotation,
                        !.requests = Append(@, closure)]
        ELSE [st EXCEPT !.rotation = currentRotation,
                        !.winner   = IF winningItem # null
                                     THEN winningItem ELSE @,
                        !.spinning = IF winningItem # null THEN FALSE ELSE @,
                        !.resolved = @ + 1]

\* one call of animate at clock reading t; st holds rotation, winner,
\* spinning, resolved and the frame requests made so far
animateResult(closure, t, st) ==
    LET elapsed         == t - closure.startTime
        currentRotation == DblAdd(closure.rotation,
                                  Dbl(easedAngle(closure.spinAngle, elapsed)))
        winningItem     == determineWinner(currentRotation,
                                           closure.visibleItems)
    IN  IF ~spinComplete(elapsed)
        THEN [st EXCEPT !.rotation = currentRotation,
                        !.requests = Append(@, closure)]
        ELSE [st EXCEPT !.rotation = currentRotation,
                        !.winner   = IF winningItem # null
                                     THEN winningItem ELSE @,
                        !.spinning = FALSE,
                        !.resolved = @ + 1]

\* an animation frame: the requested callbacks run in order
RECURSIVE runFrame(_, _, _)
runFrame(closures, t, st) ==
    IF closures = <<>> THEN st
    ELSE runFrame(Tail(closures), t, animateResult(Head(closures), t, st))

----------------------------------------------------------------------------
(* Inputs *)

\* what the user can type into the "Add new item" field
LabelInputs == {<<>>, <<" ">>, <<"x">>}

\* the ids of the collection
IdsOf(list) == {list[i].id : i \in 1..Len(list)}

\* the ids a handler can be called with: every id of the collection, an id
\* that no item has, and the empty string
IdInputs == IdsOf(items) \cup {"0", ""}

\* the values updateProbability can be called with (the slider gives 1..100)
ValueInputs == {0, 1, 50, 99, 100}

----------------------------------------------------------------------------
(* State machine *)

InitialItems ==
    [i \in 1..5 |->
        WheelItem(ToString(i), <<"P", ToString(i)>>, 20, i - 1, FALSE)]

Init ==
    /\ items = InitialItems
    /\ newItemLabel = <<>>
    /\ now = FirstNow
    /\ calls = 0
    /\ editingItemId = nullString
    /\ editingLabel = <<>>
    /\ spinning = FALSE
    /\ rotation = Dbl(0)
    /\ winner = null
    /\ frameRequests = <<>>
    /\ spins = 0
    /\ reentries = 0
    /\ resolved = 0

\* onChange of the input field: setNewItemLabel(e.target.value)
SetNewItemLabel(text) ==
    /\ newItemLabel' = text
    /\ UNCHANGED <<items, now, calls, editVars, spinVars>>

\* time passes: Date.now() returns a later reading
Tick ==
    /\ now' = now + 1
    /\ UNCHANGED <<items, newItemLabel, calls, editVars, spinVars>>

AddItem ==
    /\ items' = addItemResult(items, newItemLabel, now)
    /\ newItemLabel' = IF Trim(newItemLabel) = <<>> THEN newItemLabel ELSE <<>>
    /\ calls' = calls + 1
    /\ UNCHANGED <<now, editVars, spinVars>>

RemoveItem(id) ==
    /\ items' = removeItemResult(items, id)
    /\ calls' = calls + 1
    /\ UNCHANGED <<newItemLabel, now, editVars, spinVars>>

UpdateProbability(id, value) ==
    /\ items' = updateProbabilityResult(items, id, value)
    /\ calls' = calls + 1
    /\ UNCHANGED <<newItemLabel, now, editVars, spinVars>>

ToggleItemVisibility(id) ==
    /\ items' = toggleItemVisibilityResult(items, id)
    /\ calls' = calls + 1
    /\ UNCHANGED <<newItemLabel, now, editVars, spinVars>>

\* Every handler with every input, at most MaxCalls calls in a run
Next ==
    \/ \E text \in LabelInputs : SetNewItemLabel(text)
    \/ now < FirstNow + MaxTicks /\ Tick
    \/ calls < MaxCalls /\ Len(items) < MaxItems /\ AddItem
    \/ \E id \in IdInputs : calls < MaxCalls /\ RemoveItem(id)
    \/ \E id \in IdInputs, value \in ValueInputs :
            calls < MaxCalls /\ UpdateProbability(id, value)
    \/ \E id \in IdInputs : calls < MaxCalls /\ ToggleItemVisibility(id)

Spec == Init /\ [][Next]_vars

----------------------------------------------------------------------------
(* A long run: the user adds items, each at a later clock reading, until   *)
(* the collection holds ManyItems items, and then hides, shows or removes  *)
(* the first one; the run ends after ManyItems handler calls.              *)

NextMany ==
    \/ /\ newItemLabel = <<>>
       /\ Len(items) < ManyItems
       /\ SetNewItemLabel(<<"x">>)
    \/ /\ ToString(now) \in IdsOf(items)
       /\ Tick
    \/ /\ newItemLabel # <<>>
       /\ ToString(now) \notin IdsOf(items)
       /\ calls < ManyItems
       /\ AddItem
    \/ /\ Len(items) = ManyItems
       /\ calls < ManyItems
       /\ \E id \in {items[1].id} : ToggleItemVisibility(id)
    \/ /\ Len(items) = ManyItems
       /\ calls < ManyItems
       /\ \E id \in {items[1].id} : RemoveItem(id)

SpecMany == Init /\ [][NextMany]_vars

----------------------------------------------------------------------------
(* Adding without the clock advancing: every addItem of the run reads the  *)
(* same Date.now(); the first and the last item of the list can be         *)
(* removed, hidden and shown.                                              *)

EndIds(list) == {list[i].id : i \in {1, Len(list)} \cap (1..Len(list))}

NextDup ==
    \/ /\ newItemLabel = <<>>
       /\ SetNewItemLabel(<<"x">>)
    \/ /\ calls < DupCalls
       /\ Len(items) < MaxItems
       /\ AddItem
    \/ \E id \in EndIds(items) : calls < DupCalls /\ RemoveItem(id)
    \/ \E id \in EndIds(items) : calls < DupCalls /\ ToggleItemVisibility(id)

SpecDup == Init /\ [][NextDup]_vars

----------------------------------------------------------------------------
(* Editing towards a rounding tie: the first and the last item of the list *)
(* can be removed, hidden, shown and given the weight 57, and items can be *)
(* added.                                                                  *)

TieValues == {57}

NextTie ==
    \/ /\ newItemLabel = <<>>
       /\ SetNewItemLabel(<<"x">>)
    \/ /\ calls < TieCalls
       /\ Len(items) < MaxItems
       /\ AddItem
    \/ \E id \in EndIds(items) : calls < TieCalls /\ RemoveItem(id)
    \/ \E id \in EndIds(items), value \in TieValues :
            calls < TieCalls /\ UpdateProbability(id, value)
    \/ \E id \in EndIds(items) : calls < TieCalls /\ ToggleItemVisibility(id)

SpecTie == Init /\ [][NextTie]_vars

----------------------------------------------------------------------------
(* determineWinner as a function: a run starts with a list of visible      *)
(* items and an angle, and applies determineWinner to them once.           *)

\* the weights of the lists determineWinner is applied to
WeightLists == {
    <<100>>, <<50, 50>>, <<1, 99>>, <<20, 20, 20, 20, 20>>, <<33, 33, 34>>,
    <<2, 84, 14>>, <<1, 76, 23>>, <<25, 5, 70>>, <<10, 20, 30, 40>>,
    <<13, 13, 50, 13, 13>>, <<19, 19, 19, 19, 8>>, <<1, 1>>
}

ListOf(weights) ==
    [i \in 1..Len(weights) |->
        WheelItem(ToString(i), <<"P", ToString(i)>>, weights[i],
                  (i - 1) % NumColors, FALSE)]

\* currentAngle when the loop of determineWinner reaches the i-th item
RECURSIVE ArcStart(_, _)
ArcStart(normalizedItems, i) ==
    IF i = 1 THEN <<0, 0>>
    ELSE DblAdd(ArcStart(normalizedItems, i - 1),
                sliceAngle(normalizedItems[i - 1].probability))

\* the doubles next to x (x >= 1, not a power of two)
UlpOf(x) == 10 * Pow2(Exponent(x[1]))
NextUp(x) == <<x[1], x[2] + UlpOf(x)>>
NextDown(x) == <<x[1], x[2] - UlpOf(x)>>

\* whole numbers of degrees determineWinner is applied to
DegreeInputs == {-730, -370, -360, -10, -1, 0, 1, 36, 72, 180, 350, 359, 360,
                 361, 432, 710, 1872, 3599}

\* the largest double below 360
Below360 == NextDown(Dbl(360))

\* the angles determineWinner is applied to with a list: whole degrees, the
\* ends of the arcs of the list and the doubles next to them
AnglesOf(list) ==
    LET arcs == normalizeProbabilities(list, undefined)
        ends == {ArcStart(arcs, i) : i \in 2..(Len(arcs) + 1)}
    IN  {Dbl(d) : d \in DegreeInputs} \cup {Below360} \cup ends
            \cup {NextUp(x) : x \in ends} \cup {NextDown(x) : x \in ends}

InitResolve ==
    /\ items \in {ListOf(weights) : weights \in WeightLists}
    /\ rotation \in AnglesOf(items)
    /\ newItemLabel = <<>>
    /\ now = FirstNow
    /\ calls = 0
    /\ editingItemId = nullString
    /\ editingLabel = <<>>
    /\ spinning = FALSE
    /\ winner = null
    /\ frameRequests = <<>>
    /\ spins = 0
    /\ reentries = 0
    /\ resolved = 0

\* determineWinner(rotation, items)
Resolve ==
    /\ resolved = 0
    /\ winner' = determineWinner(rotation, items)
    /\ resolved' = 1
    /\ UNCHANGED <<itemVars, editVars, spinning, rotation, frameRequests,
                   spins, reentries>>

NextResolve == Resolve

SpecResolve == InitResolve /\ [][NextResolve]_vars

----------------------------------------------------------------------------
(* Spinning *)

\* the values of 1800 + Math.random() * 1800 tried (multiples of 8): the
\* wheel stops at 0, 72 and 288 degrees past a whole turn
SpinAngles == {1800, 1872, 2088}

\* the clock readings at which a frame of the animation started at
\* startTime is run: every half of the duration
FrameTimes(startTime) ==
    {startTime + k * (duration \div 2) : k \in 1..3}

\* spinWheel; the random angle is spinAngle
SpinWheel(spinAngle) ==
    LET outcome == spinWheelGuards(spinning, items)
        closure == [rotation     |-> rotation,
                    spinAngle    |-> spinAngle,
                    startTime    |-> now,
                    visibleItems |-> getVisibleItems(items)]
        st      == animateResult(closure, now,
                        [rotation |-> rotation,
                         winner   |-> winnerAtStart(winner),
                         spinning |-> TRUE, resolved |-> resolved,
                         requests |-> frameRequests])
    IN  /\ IF outcome = "start"
           THEN /\ spinning' = st.spinning
                /\ winner' = st.winner
                /\ rotation' = st.rotation
                /\ resolved' = st.resolved
                /\ frameRequests' = st.requests
                /\ spins' = spins + 1
                /\ UNCHANGED reentries
           ELSE /\ reentries' = IF outcome = "spinning"
                                THEN reentries + 1 ELSE reentries
                /\ UNCHANGED <<spinning, winner, rotation, resolved,
                               frameRequests, spins>>
        /\ UNCHANGED <<itemVars, editVars>>

\* the browser runs the requested animation frame at clock reading t
Frame(t) ==
    LET st == runFrame(frameRequests, t,
                    [rotation |-> rotation, winner |-> winner,
                     spinning |-> spinning, resolved |-> resolved,
                     requests |-> <<>>])
    IN  /\ frameRequests # <<>>
        /\ t > now
        /\ now' = t
        /\ spinning' = st.spinning
        /\ winner' = st.winner
        /\ rotation' = st.rotation
        /\ resolved' = st.resolved
        /\ frameRequests' = st.requests
        /\ UNCHANGED <<items, newItemLabel, calls, editVars, spins, reentries>>

\* "Close" and the backdrop of the winner popup: setWinner(null)
CloseWinner ==
    /\ winner # null
    /\ winner' = null
    /\ UNCHANGED <<itemVars, editVars, spinning, rotation, frameRequests,
                   spins, reentries, resolved>>

\* "Hide" of the winner popup: toggleItemVisibility(winner.id);
\* setWinner(null)
HideWinner ==
    /\ winner # null
    /\ items' = toggleItemVisibilityResult(items, winner.id)
    /\ winner' = null
    /\ calls' = calls + 1
    /\ UNCHANGED <<newItemLabel, now, editVars, spinning, rotation,
                   frameRequests, spins, reentries, resolved>>

\* removeWinnerItem
RemoveWinnerItem ==
    /\ winner # null
    /\ items' = removeItemResult(items, winner.id)
    /\ winner' = null
    /\ calls' = calls + 1
    /\ UNCHANGED <<newItemLabel, now, editVars, spinning, rotation,
                   frameRequests, spins, reentries, resolved>>

\* The wheel is spun at most MaxSpins times, and spinWheel is called at
\* most MaxReentries times while it spins; before, during and after a spin
\* the first and the last item of the list can be removed, hidden and shown
\* (at most SpinCalls such calls), and the winner popup is answered.
NextSpin ==
    \/ \E spinAngle \in SpinAngles :
            /\ ~spinning => spins < MaxSpins
            /\ spinning => reentries < MaxReentries
            /\ SpinWheel(spinAngle)
    \/ /\ frameRequests # <<>>
       /\ \E t \in FrameTimes(frameRequests[1].startTime) : Frame(t)
    \/ \E id \in EndIds(items) : calls < SpinCalls /\ RemoveItem(id)
    \/ \E id \in EndIds(items) : calls < SpinCalls /\ ToggleItemVisibility(id)
    \/ CloseWinner
    \/ calls < SpinCalls /\ HideWinner
    \/ calls < SpinCalls /\ RemoveWinnerItem

SpecSpin == Init /\ [][NextSpin]_vars

\* a step of Frame, told by what it does to the clock: in SpecSpin the
\* steps that take a later clock reading are the steps of Frame, and a
\* frame can be run whenever one is requested
FrameRuns ==
    /\ frameRequests # <<>>
    /\ \E t \in FrameTimes(frameRequests[1].startTime) : t > now /\ now' = t

\* requestAnimationFrame: a requested frame is eventually run
FairSpin == WF_now(FrameRuns)

SpecSpinFair == SpecSpin /\ FairSpin

----------------------------------------------------------------------------
(* Spinning again.  An item can be added and the first and the last item   *)
(* hidden, shown or removed (at most GapCalls such calls); the wheel is    *)
(* spun at most GapSpins times and can stop 357 degrees past a whole turn. *)
(* The winner popup stays open until the next spin.                        *)

\* the values of 1800 + Math.random() * 1800 tried
GapAngles == {1800, 2157}

\* the clock readings at which a frame of the animation is run: those of
\* FrameTimes at which spinAngle * easeOut(progress) is a whole number of
\* degrees (the frame at half of the duration needs a multiple of 8)
FrameReadings(closure) ==
    {t \in FrameTimes(closure.startTime) :
        t - closure.startTime >= duration \/ closure.spinAngle % 8 = 0}

NextGap ==
    \/ /\ newItemLabel = <<>>
       /\ SetNewItemLabel(<<"x">>)
    \/ /\ calls < GapCalls
       /\ Len(items) < MaxItems
       /\ AddItem
    \/ \E id \in EndIds(items) : calls < GapCalls /\ RemoveItem(id)
    \/ \E id \in EndIds(items) : calls < GapCalls /\ ToggleItemVisibility(id)
    \/ \E spinAngle \in GapAngles :
            /\ ~spinning => spins < GapSpins
            /\ spinning => reentries < MaxReentries
            /\ SpinWheel(spinAngle)
    \/ /\ frameRequests # <<>>
       /\ \E t \in FrameReadings(frameRequests[1]) : Frame(t)

SpecGap == Init /\ [][NextGap]_vars

----------------------------------------------------------------------------
(* Renaming *)

\* what the user can type into the rename field
EditInputs == {<<>>, <<"y">>}

\* startEditingItem(item) with the i-th item of the list
StartEditingItem(i) ==
    /\ i \in 1..Len(items)
    /\ editingItemId' = items[i].id
    /\ editingLabel' = items[i].label
    /\ UNCHANGED <<itemVars, spinVars>>

\* onChange of the rename field: setEditingLabel(e.target.value)
SetEditingLabel(text) ==
    /\ editingLabel' = text
    /\ UNCHANGED <<itemVars, editingItemId, spinVars>>

\* saveItemLabel
SaveItemLabel ==
    /\ items' = saveItemLabelResult(items, editingItemId, editingLabel)
    /\ editingItemId' = IF Truthy(editingItemId) THEN nullString
                        ELSE editingItemId
    /\ editingLabel' = IF Truthy(editingItemId) THEN <<>> ELSE editingLabel
    /\ UNCHANGED <<newItemLabel, now, calls, spinVars>>

\* cancelEditing
CancelEditing ==
    /\ editingItemId' = nullString
    /\ editingLabel' = <<>>
    /\ UNCHANGED <<itemVars, spinVars>>

\* Items are added without the clock advancing (at most EditCalls of
\* them), and the first and the last item of the list are renamed.
NextEdit ==
    \/ /\ newItemLabel = <<>>
       /\ SetNewItemLabel(<<"x">>)
    \/ /\ calls < EditCalls
       /\ Len(items) < MaxItems
       /\ AddItem
    \/ \E i \in {1, Len(items)} : StartEditingItem(i)
    \/ \E text \in EditInputs : SetEditingLabel(text)
    \/ SaveItemLabel
    \/ CancelEditing

SpecEdit == Init /\ [][NextEdit]_vars

----------------------------------------------------------------------------
(* Properties *)

VisibleSum(list) == SumProbability(getVisibleItems(list))
NumVisible(list) == Len(getVisibleItems(list))

\* C1: in every reachable state the weights of the visible segments sum to
\* exactly 100.
C1_VisibleSumIsExactly100 == VisibleSum(items) = 100

\* C2: in every reachable state the sum of the visible weights differs from
\* 100 by at most the number of visible segments.
C2_VisibleSumWithinCount ==
    /\ VisibleSum(items) - 100 <= NumVisible(items)
    /\ 100 - VisibleSum(items) <= NumVisible(items)

\* C3: in every reachable state every segment, visible or hidden, has a
\* weight >= 1, whatever the number of visible segments the equal share
\* divides 100 by.
C3_EveryWeightAtLeast1 ==
    \A i \in 1..Len(items) : items[i].probability >= 1

\* C4: the collection holds at least 2 segments in every reachable state,
\* and removeSegment called on a collection of 2 or fewer segments leaves
\* the whole collection unchanged.
C4_AtLeastTwoSegments ==
    /\ Len(items) >= 2
    /\ \A id \in IdInputs :
            Len(items) <= 2 => removeItemResult(items, id) = items

\* values setWeight is tried with: below, at, inside and above [1, 99]
C5_Values == ValueInputs \cup {-7, 250}

\* C5: for every id of the collection and every value v, after
\* setWeight(id, v) the segment with that id has weight min(99, max(1, v)),
\* and the collection holds the same segments in the same order.
C5_EditedWeightIsClamped ==
    \A id \in IdsOf(items), v \in C5_Values :
        LET after == updateProbabilityResult(items, id, v)
        IN  /\ Len(after) = Len(items)
            /\ \A i \in 1..Len(items) :
                    /\ after[i].id = items[i].id
                    /\ items[i].id = id =>
                            after[i].probability = Min(99, Max(1, v))

\* C5 witness: setWeight("1", 100) has acted on the initial collection: the
\* edited segment holds 99 and the four others were cut down to 1.
C5_Witness ==
    /\ Len(items) = 5
    /\ items[1].id = "1" /\ items[1].probability = 99
    /\ \A i \in 2..5 : items[i].probability = 1

\* C6: from 5 visible segments of weight 20, setWeight("3", 50) leaves
\* segment 3 with 50 and gives segments 1, 2, 4 and 5 weights of 12 or 13
\* whose total is exactly 50.
C6_SetWeight3To50 ==
    [][(items = InitialItems /\ UpdateProbability("3", 50)) =>
        /\ items'[3].probability = 50
        /\ \A i \in {1, 2, 4, 5} : items'[i].probability \in {12, 13}
        /\ items'[1].probability + items'[2].probability
             + items'[4].probability + items'[5].probability = 50]_vars

\* the weights calculateEqualShare is meant to leave in the visible
\* segments of list: floor(100/N) each, the rest of 100 on the last one
IsEqualShare(list) ==
    LET vis == getVisibleItems(list)
        n   == Len(vis)
    IN  n >= 1 =>
            /\ \A k \in 1..(n - 1) : vis[k].probability = 100 \div n
            /\ vis[n].probability = 100 - (100 \div n) * (n - 1)
            /\ SumProbability(vis) = 100

\* C7: after removeSegment(id) accepted on a collection of more than 2
\* segments the named segment is gone, the visible segments hold the equal
\* share (floor(100/N) each, the rest on the last one, total exactly 100)
\* and every remaining hidden segment keeps its weight.
C7_RemoveGivesEqualShare ==
    [][\A id \in IdsOf(items) :
        (Len(items) > 2 /\ RemoveItem(id)) =>
            LET Keep(item) == item.id # id
                remaining  == SelectSeq(items, Keep)
            IN  /\ id \notin IdsOf(items')
                /\ Len(items') = Len(remaining)
                /\ IsEqualShare(items')
                /\ \A j \in 1..Len(remaining) :
                        remaining[j].hidden =>
                            /\ items'[j].hidden
                            /\ items'[j].probability = remaining[j].probability
      ]_vars

\* C8: toggleVisibility(id) on an existing segment flips the hidden flag of
\* that segment only, then gives all now-visible segments the equal share of
\* 100, and a segment hidden after the call keeps its weight; from the
\* initial collection toggleVisibility("2") gives 25, 20 (hidden), 25, 25, 25.
C8_ToggleGivesEqualShare ==
    [][/\ \A id \in IdsOf(items) :
            ToggleItemVisibility(id) =>
                /\ Len(items') = Len(items)
                /\ \A i \in 1..Len(items) :
                        /\ items'[i].hidden =
                             (IF items[i].id = id THEN ~items[i].hidden
                                                  ELSE items[i].hidden)
                        /\ items'[i].hidden =>
                                items'[i].probability = items[i].probability
                /\ IsEqualShare(items')
       /\ (items = InitialItems /\ ToggleItemVisibility("2")) =>
                /\ items'[2].hidden /\ items'[2].probability = 20
                /\ \A i \in {1, 3, 4, 5} :
                        ~items'[i].hidden /\ items'[i].probability = 25
      ]_vars

\* C9: the normalizer, as run by addSegment (proportional mode) and by
\* setWeight (pinned mode), leaves the weight of every hidden segment as it
\* was, apart from clamping it to >= 1.
C9_NormalizerLeavesHiddenWeights ==
    [][/\ AddItem =>
            \A i \in 1..Len(items) :
                items[i].hidden =>
                    items'[i].probability = Max(1, items[i].probability)
       /\ \A id \in IdInputs, value \in ValueInputs :
            UpdateProbability(id, value) =>
                \A i \in 1..Len(items) :
                    (items[i].hidden /\ items[i].id # id) =>
                        items'[i].probability = Max(1, items[i].probability)
      ]_vars

\* num / den rounded to the nearest integer, halves upwards
RoundHalfUp(num, den) == (2 * num + den) \div (2 * den)

\* C10: addSegment with an empty or whitespace-only label leaves the
\* collection unchanged; with any other label it appends one visible
\* segment, keeps the ids, labels, hidden flags and order of the existing
\* segments, and sets every weight to max(1, round(old_weight * 100 / total)),
\* total being the sum of all weights including the 10 of the new segment.
C10_AddSegment ==
    [][AddItem =>
        IF Trim(newItemLabel) = <<>> THEN items' = items
        ELSE LET n     == Len(items)
                 total == SumProbability(items) + 10
             IN  /\ Len(items') = n + 1
                 /\ items'[n + 1].label = newItemLabel
                 /\ ~items'[n + 1].hidden
                 /\ items'[n + 1].probability =
                        Max(1, RoundHalfUp(10 * 100, total))
                 /\ \A i \in 1..n :
                        /\ items'[i].id = items[i].id
                        /\ items'[i].label = items[i].label
                        /\ items'[i].hidden = items[i].hidden
                        /\ items'[i].probability =
                             Max(1, RoundHalfUp(items[i].probability * 100,
                                                total))
      ]_vars

----------------------------------------------------------------------------
(* Properties of determineWinner *)

\* the arcs determineWinner lays out for a list
ArcsOf(list) == normalizeProbabilities(list, undefined)

\* 0 <= x < 360
IsPosition(x) == DblGeq(x, Dbl(0)) /\ DblLess(x, Dbl(360))

\* C11: for a pointer position t in [0, 360) the resolver returns the
\* segment, in collection order with the arcs laid out contiguously from 0,
\* whose half-open interval [start, start + width) contains t; a position
\* exactly on the boundary between two arcs belongs to the later segment
\* and not to the earlier one.
C11_HalfOpenArcs ==
    (resolved = 1 /\ IsPosition(rotation)) =>
        \A i \in 1..Len(ArcsOf(items)) :
            (/\ DblGeq(rotation, ArcStart(ArcsOf(items), i))
             /\ DblLess(rotation, ArcStart(ArcsOf(items), i + 1)))
            => /\ winner = ArcsOf(items)[i]
               /\ i > 1 => winner # ArcsOf(items)[i - 1]

\* determineWinner was applied to a position exactly on the boundary
\* between two arcs and returned the later segment
C11_Witness ==
    /\ resolved = 1
    /\ IsPosition(rotation)
    /\ \E i \in 2..Len(ArcsOf(items)) :
            /\ rotation = ArcStart(ArcsOf(items), i)
            /\ winner = ArcsOf(items)[i]

\* whole turns added to an angle
C12_Turns == {-3, -2, -1, 1, 2, 3}

\* C12: for every terminal angle, negative ones included, the resolver
\* reduces the angle to a pointer position in [0, 360) before matching it
\* against the arcs, so that with weights summing to 100 the angles a and
\* a + 360k (k any integer) give the same winner.
C12_SameWinnerEveryTurn ==
    resolved = 1 =>
        /\ IsPosition(Rem360(rotation))
        /\ (rotation[2] = 0 /\ SumProbability(items) = 100) =>
                \A k \in C12_Turns :
                    determineWinner(<<rotation[1] + 3600 * k, 0>>, items)
                        = winner

\* the visible weights are >= 1 and sum to 100
C13_Normalized(list) ==
    /\ \A i \in 1..Len(list) : list[i].probability >= 1
    /\ SumProbability(list) = 100

\* C13: for every ordered list of visible segments whose weights are >= 1
\* and sum to 100, every position in [0, 360) lies in the arc of exactly one
\* segment, and the resolver returns that segment.
C13_ArcsCoverTheCircle ==
    (resolved = 1 /\ IsPosition(rotation) /\ C13_Normalized(items)) =>
        /\ winner # null
        /\ Cardinality({i \in 1..Len(items) :
                /\ DblGeq(rotation, ArcStart(ArcsOf(items), i))
                /\ DblLess(rotation, ArcStart(ArcsOf(items), i + 1))}) = 1

----------------------------------------------------------------------------
(* Properties of the spin *)

\* C15: a spin request made while spinning is true is ignored: it starts no
\* second animation and does not change rotation or winner, so at every
\* moment at most one spin is in progress and at most one winner resolution
\* is pending.
C15_ReentrantSpinIgnored ==
    /\ [](Len(frameRequests) <= 1 /\ spins - resolved <= 1)
    /\ [][\A spinAngle \in SpinAngles :
            (spinning /\ SpinWheel(spinAngle)) =>
                UNCHANGED <<spinning, rotation, winner, frameRequests,
                            spins, resolved>>]_vars

\* spinWheel was called while the wheel was spinning, and the one animation
\* is still running
C15_Witness ==
    /\ reentries >= 1
    /\ spinning
    /\ Len(frameRequests) = 1
    /\ spins - resolved = 1

\* C16: every started spin, given that frames keep arriving, eventually
\* completes; determineWinner is called exactly once for it, only at the
\* frame at which progress reaches 1 (elapsed >= duration) and at no earlier
\* frame, and spinning then returns to false; no operation ends a spin in
\* flight.
C16_SpinCompletesOnce ==
    /\ spinning ~> ~spinning
    /\ [](spins - resolved = IF spinning THEN 1 ELSE 0)
    /\ [][resolved' # resolved =>
            /\ resolved' = resolved + 1
            /\ spinning /\ ~spinning'
            /\ frameRequests # <<>>
            /\ now' - frameRequests[1].startTime >= duration]_vars
    /\ [][(spinning /\ ~spinning') \/
          (frameRequests # <<>> /\ frameRequests' = <<>>) =>
            resolved' = resolved + 1]_vars

\* a spin has run to its end: the wheel has turned and stands still
C16_Witness ==
    /\ spins >= 1
    /\ spins = resolved
    /\ ~spinning
    /\ frameRequests = <<>>
    /\ rotation # Dbl(0)

\* C17: a segment that is hidden, or that has been removed, at the moment a
\* spin resolves is never set as the winner, also when toggleVisibility or
\* removeSegment is applied to it between the start of the spin and its
\* resolution: the winner a resolution sets is a visible segment of the
\* collection.
C17_WinnerIsVisibleAtResolution ==
    [][(resolved' = resolved + 1 /\ winner' # null) =>
            \E i \in 1..Len(items') :
                items'[i].id = winner'.id /\ ~items'[i].hidden]_vars

----------------------------------------------------------------------------
(* Properties of the handlers *)

\* C18: setLabel changes only the label of the named segment: the weight,
\* hidden flag, id, colour and position of every segment and the labels of
\* all other segments are unchanged (at most one segment gets a new label,
\* and no segment with another id does), and no redistribution runs.
C18_RenameChangesOneLabel ==
    [][SaveItemLabel =>
        /\ Len(items') = Len(items)
        /\ \A i \in 1..Len(items) :
                /\ items'[i] = [items[i] EXCEPT !.label = items'[i].label]
                /\ items[i].id # editingItemId => items'[i] = items[i]
        /\ Cardinality({i \in 1..Len(items) :
                            items'[i].label # items[i].label}) <= 1]_vars

\* the ids a handler can be called with that no item of the list has
UnknownIds(list) == IdInputs \ IdsOf(list)

\* C19: setWeight with an id that is not in the collection is a silent
\* no-op: in a state where all weights are >= 1 the collection is left
\* unchanged, no segment's weight is redistributed.
C19_SetWeightUnknownIdIsNoOp ==
    [][\A id \in UnknownIds(items), value \in ValueInputs :
            (/\ \A i \in 1..Len(items) : items[i].probability >= 1
             /\ UpdateProbability(id, value))
            => items' = items]_vars

\* C20: removeSegment and toggleVisibility called with an id that matches
\* no segment of the collection leave the collection unchanged: no segment
\* is deleted, no hidden flag flips and no visible segment's weight changes.
C20_UnknownIdIsNoOp ==
    [][\A id \in UnknownIds(items) :
            (RemoveItem(id) \/ ToggleItemVisibility(id))
            => items' = items]_vars

----------------------------------------------------------------------------
(* Properties of the collection *)

\* C21: in every reachable state no two segments of the collection have
\* the same id (so an id given by addSegment is not the id of a segment
\* already there), also when two addSegment calls happen at the same clock
\* reading.
C21_IdsAreUnique ==
    \A i, j \in 1..Len(items) : i # j => items[i].id # items[j].id

\* C22: in every reachable state every segment's weight is an integer in
\* [1, 99]; no sequence of operations, toggling or removing segments until a
\* single visible segment remains included, stores a weight of 100 or more.
C22_WeightsWithin1And99 ==
    \A i \in 1..Len(items) :
        items[i].probability >= 1 /\ items[i].probability <= 99

\* C23: for every visible segment the arc width the resolver uses is the
\* segment's stored weight / 100 * 360 degrees, in every state reachable
\* through addSegment, removeSegment, setWeight and toggleVisibility: the
\* re-normalization the resolver applies to the visible list never changes
\* a weight away from the stored one.
C23_ArcWidthIsStoredWeight ==
    \A i \in 1..NumVisible(items) :
        /\ ArcsOf(getVisibleItems(items))[i].probability
                = getVisibleItems(items)[i].probability
        /\ DblAdd(ArcStart(ArcsOf(getVisibleItems(items)), i),
                  sliceAngle(getVisibleItems(items)[i].probability))
                = ArcStart(ArcsOf(getVisibleItems(items)), i + 1)

\* C24: when the spin completes at an angle that no arc of the list captured
\* at its start contains, the spin still ends: spinning becomes false, the
\* winner stays null, no frame remains requested, and spinWheel would start
\* a new spin (at least 2 items being visible)
C24_NoWinnerStillEndsTheSpin ==
    [][(/\ frameRequests # <<>>
        /\ resolved' = resolved + 1
        /\ determineWinner(rotation', frameRequests[1].visibleItems) = null)
        => /\ ~spinning'
           /\ winner' = null
           /\ frameRequests' = <<>>
           /\ NumVisible(items') >= 2
                => spinWheelGuards(spinning', items') = "start"]_vars

\* the first spin has completed at an angle that no arc contains: the wheel
\* is at rest without a winner
C24_Witness ==
    /\ spins = 1
    /\ resolved = 1
    /\ ~spinning
    /\ winner = null
    /\ frameRequests = <<>>
    /\ determineWinner(rotation, getVisibleItems(items)) = null

\* C25: every spin that completes sets the winner to an item
C25_EverySpinResolvesToAWinner ==
    [][resolved' = resolved + 1 => winner' # null]_vars

\* C26: a spin starts only when spinning is false and at least 2 items are
\* visible, and it leaves the winner null; while spinning the winner is
\* null; the winner is set to an item only in a step that takes spinning
\* from true to false
C26_NoWinnerWhileSpinning ==
    /\ [](spinning => winner = null)
    /\ [][spins' = spins + 1
            => /\ ~spinning
               /\ NumVisible(items) >= 2
               /\ spinning'
               /\ winner' = null]_vars
    /\ [][(winner' # winner /\ winner' # null)
            => (spinning /\ ~spinning')]_vars

\* the second spin of the untouched wheel is running: it started from an
\* angle at which the first spin found a winner, and the winner is null
C26_Witness ==
    /\ calls = 0
    /\ spins = 2
    /\ spinning
    /\ winner = null
    /\ determineWinner(frameRequests[1].rotation,
                       frameRequests[1].visibleItems) # null

====
